---- MODULE Spec2Model ----
(***************************************************************************)
(* Model of sauron's scan orchestration: the one-shot directory walk       *)
(* (src/fs_scan.rs) and the filesystem monitor (src/fs_monitor.rs), both   *)
(* dispatching scan jobs to a fixed-size thread pool.                      *)
(***************************************************************************)
EXTENDS Integers, Sequences, FiniteSets, TLC

\* ------------------------------------------------------------------ bounds
\* largest pool size tried (args.workers is 1 or MaxWorkers)
MaxWorkers == 2
\* largest number of entries that exist under the root at one time
MaxEntries == 2
\* number of filesystem events the monitor loop receives in one run
MaxEvents == 2

\* ------------------------------------------------------------------ paths
\* A path is the sequence of characters of its final component.
bDll == <<"b", ".", "D", "l", "l">>
ctxt == <<"c", ".", "t", "x", "t">>
noext == <<"n", "o", "e", "x", "t">>
dexe == <<"d", ".", "e", "x", "e">>
Root == <<"r">>

Names == {bDll, ctxt, noext, dexe}
Paths == Names \cup {Root}
\* the entries the monitored tree gets events for
WatchNames == {bDll, ctxt}

\* what a path refers to: nothing, a regular file, a directory, or an entry
\* whose traversal raises an error
Kinds == {"none", "file", "dir", "err"}

\* Option values
None == <<>>
Some(x) == <<x>>

\* char::to_lowercase on the alphabet of Paths and of the allow-lists
ToLowerChar(c) ==
  CASE c = "E" -> "e"
    [] c = "X" -> "x"
    [] c = "D" -> "d"
    [] c = "L" -> "l"
    [] OTHER -> c

\* str::to_lowercase
to_lowercase(s) == [i \in DOMAIN s |-> ToLowerChar(s[i])]

\* Path::extension: None without an embedded '.', None when the only '.' is
\* the first character, otherwise the part after the final '.'
extension(f_path) ==
  LET dots == {i \in DOMAIN f_path : f_path[i] = "."}
      last == IF dots = {} THEN 0 ELSE CHOOSE i \in dots : \A j \in dots : j <= i
  IN  IF last <= 1 THEN None ELSE Some(SubSeq(f_path, last + 1, Len(f_path)))

\* Path::is_file and Path::exists
is_file(fsys, path) == fsys[path] = "file"
exists(fsys, path) == fsys[path] \in {"file", "dir"}

\* ------------------------------------------------------------ configuration
exe == <<"e", "x", "e">>
dll == <<"d", "l", "l">>
ExtLists == {<<>>, <<exe, dll>>}
\* args.workers: a pool of one thread, and a pool of MaxWorkers threads
PoolSizes == {1, MaxWorkers}

VARIABLES
  mode,          \* "walk" (fs_scan::start) or "watch" (fs_monitor::start)
  args,          \* Arguments: workers, ext
  fs,            \* the filesystem: Paths -> Kinds
  visited,       \* entries the WalkDir iterator has yielded
  pc,            \* position of the main thread
  submitted,     \* paths of the jobs given to pool.execute, in order
  status,        \* per job: queued, or where its closure stands, or done
  results,       \* per job: the ScanResult engine.scan returned, if any
  invocations,   \* per job: the number of engine.scan calls made for it
  num_scanned,   \* AtomicU32 (its wrap at 2^32 is out of reach of a bounded walk)
  num_detected,  \* AtomicU32
  reported,      \* the counters as read by the final log line, if written
  lastEvent,     \* the event the monitor loop handled last
  nHandled,      \* number of events the monitor loop has handled
  logged,        \* per job: the level of the line its closure logged, if any
  chan           \* the watcher's channel: "open", or "closed" (sender gone)

vars == <<mode, args, fs, visited, pc, submitted, status, results,
          invocations, num_scanned, num_detected, reported, lastEvent, nHandled,
          logged, chan>>

NoEvent == [kind |-> "None", path |-> <<>>, old |-> <<>>]

\* ScanResult: error set or not, detected flag (tags are only logged)
ScanResults == [detected : BOOLEAN, error : BOOLEAN]

\* the entries under the root
Existing(fsys) == {p \in Names : fsys[p] # "none"}

Jobs == DOMAIN submitted

\* ----------------------------------------------------------------- threadpool
\* The pool threads are interchangeable: a thread is active while it holds a
\* job, so the pool is described by the position of every job.
Queued == {j \in Jobs : status[j] = "queued"}
Active == {j \in Jobs : status[j] \in {"scan", "detected", "scanned", "exit"}}

\* ThreadPool::new(args.workers): nothing queued, no thread active
PoolInit ==
  /\ submitted = <<>>
  /\ status = <<>>
  /\ results = <<>>
  /\ invocations = <<>>
  /\ logged = <<>>

\* (mutant) a queue of one slot: execute waits while a job is queued
execute_bounded(path) ==
  /\ Queued = {}
  /\ submitted' = Append(submitted, path)
  /\ status' = Append(status, "queued")
  /\ results' = Append(results, None)
  /\ invocations' = Append(invocations, 0)
  /\ logged' = Append(logged, "none")

\* pool.execute(job): the job is appended to the queue; the caller goes on
execute(path) ==
  /\ submitted' = Append(submitted, path)
  /\ status' = Append(status, "queued")
  /\ results' = Append(results, None)
  /\ invocations' = Append(invocations, 0)
  /\ logged' = Append(logged, "none")

\* (mutant) a thread is spawned for every queued job
TakeUnbounded(j) ==
  /\ j \in Queued
  /\ \A k \in Queued : j <= k
  /\ status' = [status EXCEPT ![j] = "scan"]
  /\ UNCHANGED <<mode, args, fs, visited, pc, submitted, results, logged, invocations,
                 num_scanned, num_detected, reported, lastEvent, nHandled, chan>>

\* (mutant) a job waits while another job for the same path is running
TakeDedup(j) ==
  /\ j \in Queued
  /\ \A k \in Queued : j <= k
  /\ Cardinality(Active) < args.workers
  /\ \A k \in Active : submitted[k] # submitted[j]
  /\ status' = [status EXCEPT ![j] = "scan"]
  /\ UNCHANGED <<mode, args, fs, visited, pc, submitted, results, logged, invocations,
                 num_scanned, num_detected, reported, lastEvent, nHandled, chan>>

\* an idle pool thread receives the oldest queued job and counts itself active
Take(j) ==
  /\ j \in Queued
  /\ \A k \in Queued : j <= k
  /\ Cardinality(Active) < args.workers
  /\ status' = [status EXCEPT ![j] = "scan"]
  /\ UNCHANGED <<mode, args, fs, visited, pc, submitted, results, logged, invocations,
                 num_scanned, num_detected, reported, lastEvent, nHandled, chan>>

\* (mutant) a job whose scan failed is queued again
FinishRetryOnError(j) ==
  /\ j \in Jobs
  /\ status[j] = "exit"
  /\ status' = [status EXCEPT ![j] =
                  IF results[j][1].error THEN "queued" ELSE "done"]
  /\ UNCHANGED <<mode, args, fs, visited, pc, submitted, results, logged,
                 invocations, num_scanned, num_detected, reported, lastEvent,
                 nHandled, chan>>

\* (mutant) the thread of a closure that returned stays active
FinishHangs(j) ==
  /\ j \in Jobs
  /\ status[j] = "exit"
  /\ UNCHANGED vars

\* the closure returned: its thread is no longer active
Finish(j) ==
  /\ j \in Jobs
  /\ status[j] = "exit"
  /\ status' = [status EXCEPT ![j] = "done"]
  /\ UNCHANGED <<mode, args, fs, visited, pc, submitted, results, logged,
                 invocations, num_scanned, num_detected, reported, lastEvent,
                 nHandled, chan>>

\* (mutant) join looks at the queue only
has_work_queued_only == Queued # {}

\* ThreadPool::join waits while a job is queued or a thread is active
has_work == Queued # {} \/ Active # {}

\* ----------------------------------------------------------------- fs_scan
\* the extension filter of the walk loop
do_scan(ext_list, f_path) ==
  \/ ext_list = <<>>
  \/ /\ extension(f_path) # None
     /\ \E i \in DOMAIN ext_list :
          to_lowercase(ext_list[i]) = to_lowercase(extension(f_path)[1])

\* the entries WalkDir can yield: the root, and below a directory root all
\* that exists
Reachable == IF fs[Root] = "dir" THEN {Root} \cup Existing(fs) ELSE {Root}

\* WalkDir yields the root first and then the directory's entries in the
\* order read_dir returns them, which the directory fixes: here DirOrder
DirOrder == <<Root, bDll, ctxt, dexe, noext>>
Pos(p) == CHOOSE i \in DOMAIN DirOrder : DirOrder[i] = p

\* (mutant) a traversal error ends the iteration instead of being dropped
WalkNextStopsAtError(f_path) ==
  /\ mode = "walk"
  /\ pc = "walk"
  /\ f_path \in Reachable \ visited
  /\ \A q \in Reachable \ visited : Pos(f_path) <= Pos(q)
  /\ visited' = IF fs[f_path] = "err" THEN Reachable
                ELSE visited \cup {f_path}
  /\ IF fs[f_path] \in {"file", "dir"} /\ do_scan(args.ext, f_path)
       THEN execute(f_path)
       ELSE UNCHANGED <<submitted, status, results, logged, invocations>>
  /\ UNCHANGED <<mode, args, fs, pc, num_scanned, num_detected,
                 reported, lastEvent, nHandled, chan>>

\* one iteration of the for loop: the next entry, errors dropped by
\* filter_map(|e| e.ok()), then the filter, then pool.execute
WalkNext(f_path) ==
  /\ mode = "walk"
  /\ pc = "walk"
  /\ f_path \in Reachable \ visited
  /\ \A q \in Reachable \ visited : Pos(f_path) <= Pos(q)
  /\ visited' = visited \cup {f_path}
  /\ IF fs[f_path] \in {"file", "dir"} /\ do_scan(args.ext, f_path)
       THEN execute(f_path)
       ELSE UNCHANGED <<submitted, status, results, logged, invocations>>
  /\ UNCHANGED <<mode, args, fs, pc, num_scanned, num_detected,
                 reported, lastEvent, nHandled, chan>>

\* (mutant) an error result leaves the closure without counting the job
WalkScanErrorReturns(j, res) ==
  /\ mode = "walk"
  /\ j \in Jobs
  /\ status[j] = "scan"
  /\ results' = [results EXCEPT ![j] = Some(res)]
  /\ invocations' = [invocations EXCEPT ![j] = @ + 1]
  /\ logged' = IF res.error THEN [logged EXCEPT ![j] = "debug"] ELSE logged
  /\ status' = [status EXCEPT ![j] =
                  IF res.error THEN "exit"
                  ELSE IF res.detected THEN "detected" ELSE "scanned"]
  /\ UNCHANGED <<mode, args, fs, visited, pc, submitted, num_scanned,
                 num_detected, reported, lastEvent, nHandled, chan>>

\* (mutant) the detected flag is tested before the error
WalkScanDetectedFirst(j, res) ==
  /\ mode = "walk"
  /\ j \in Jobs
  /\ status[j] = "scan"
  /\ results' = [results EXCEPT ![j] = Some(res)]
  /\ invocations' = [invocations EXCEPT ![j] = @ + 1]
  /\ logged' = IF ~res.detected /\ res.error
                THEN [logged EXCEPT ![j] = "debug"] ELSE logged
  /\ status' = [status EXCEPT ![j] =
                  IF res.detected THEN "detected" ELSE "scanned"]
  /\ UNCHANGED <<mode, args, fs, visited, pc, submitted, num_scanned,
                 num_detected, reported, lastEvent, nHandled, chan>>

\* the closure of the walk: engine.scan, then the branch on the result
WalkScan(j, res) ==
  /\ mode = "walk"
  /\ j \in Jobs
  /\ status[j] = "scan"
  /\ results' = [results EXCEPT ![j] = Some(res)]
  /\ invocations' = [invocations EXCEPT ![j] = @ + 1]
  /\ logged' = IF res.error THEN [logged EXCEPT ![j] = "debug"] ELSE logged
  /\ status' = [status EXCEPT ![j] =
                  IF res.error THEN "scanned"
                  ELSE IF res.detected THEN "detected" ELSE "scanned"]
  /\ UNCHANGED <<mode, args, fs, visited, pc, submitted, num_scanned,
                 num_detected, reported, lastEvent, nHandled, chan>>

\* (mutant) the detection branch ends the closure, num_scanned untouched
IncDetectedReturns(j) ==
  /\ j \in Jobs
  /\ status[j] = "detected"
  /\ num_detected' = num_detected + 1
  /\ logged' = [logged EXCEPT ![j] = "warn"]
  /\ status' = [status EXCEPT ![j] = "exit"]
  /\ UNCHANGED <<mode, args, fs, visited, pc, submitted, results,
                 invocations, num_scanned, reported, lastEvent, nHandled, chan>>

\* num_detected.fetch_add(1, SeqCst)
IncDetected(j) ==
  /\ j \in Jobs
  /\ status[j] = "detected"
  /\ num_detected' = num_detected + 1
  /\ logged' = [logged EXCEPT ![j] = "warn"]
  /\ status' = [status EXCEPT ![j] = "scanned"]
  /\ UNCHANGED <<mode, args, fs, visited, pc, submitted, results,
                 invocations, num_scanned, reported, lastEvent, nHandled, chan>>

\* num_scanned.fetch_add(1, SeqCst)
IncScanned(j) ==
  /\ j \in Jobs
  /\ status[j] = "scanned"
  /\ num_scanned' = num_scanned + 1
  /\ status' = [status EXCEPT ![j] = "exit"]
  /\ UNCHANGED <<mode, args, fs, visited, pc, submitted, results, logged,
                 invocations, num_detected, reported, lastEvent, nHandled, chan>>

\* the for loop is over and pool.join() returns
Join ==
  /\ mode = "walk"
  /\ pc = "walk"
  /\ Reachable \subseteq visited
  /\ ~has_work
  /\ pc' = "report"
  /\ UNCHANGED <<mode, args, fs, visited, submitted, status, results, logged,
                 invocations, num_scanned, num_detected, reported, lastEvent,
                 nHandled, chan>>

\* the final log line reads both counters; start returns Ok(())
Report ==
  /\ mode = "walk"
  /\ pc = "report"
  /\ reported' = Some([scanned |-> num_scanned, detected |-> num_detected])
  /\ pc' = "done"
  /\ UNCHANGED <<mode, args, fs, visited, submitted, status, results, logged,
                 invocations, num_scanned, num_detected, lastEvent, nHandled, chan>>

\* --------------------------------------------------------------- fs_monitor
AcceptedKindsAndRemove ==
  {"Create", "NoticeWrite", "Write", "Rename", "Remove", "NoticeRemove"}
AcceptedKinds == {"Create", "NoticeWrite", "Write", "Rename"}
IgnoredKinds == {"NoticeRemove", "Chmod", "Remove"}

\* DebouncedEvent values over Names
Events ==
  [kind : (AcceptedKinds \ {"Rename"}) \cup IgnoredKinds, path : WatchNames,
   old : {None}]
    \cup {e \in [kind : {"Rename"}, path : WatchNames, old : WatchNames] :
            e.old # e.path}
    \cup [kind : {"Rescan"}, path : {None}, old : {None}]
    \cup [kind : {"Error"}, path : WatchNames \cup {None}, old : {None}]

\* the environment creates, replaces or removes an entry under the root
FsChange(p, k) ==
  /\ mode = "watch"
  /\ k \in {"none", "file", "dir"}
  /\ fs[p] # k
  /\ fs' = [fs EXCEPT ![p] = k]
  /\ Cardinality(Existing(fs')) <= MaxEntries
  /\ UNCHANGED <<mode, args, visited, pc, submitted, status, results, logged,
                 invocations, num_scanned, num_detected, reported, lastEvent,
                 nHandled, chan>>

\* the path a matching arm binds: the event's path, for Rename the
\* destination (the source is bound to _)
scan_path_old(event) == IF event.kind = "Rename" THEN event.old ELSE event.path
scan_path(event) == event.path

\* (mutant) an Error event ends the loop
RecvErrorFatal(event) ==
  /\ mode = "watch"
  /\ pc = "recv"
  /\ chan = "open"
  /\ nHandled < MaxEvents
  /\ lastEvent' = event
  /\ nHandled' = nHandled + 1
  /\ pc' = IF event.kind = "Error" THEN "failed" ELSE pc
  /\ IF /\ event.kind \in AcceptedKinds
        /\ is_file(fs, scan_path(event)) /\ exists(fs, scan_path(event))
       THEN execute(scan_path(event))
       ELSE UNCHANGED <<submitted, status, results, logged, invocations>>
  /\ UNCHANGED <<mode, args, fs, visited, num_scanned,
                 num_detected, reported, chan>>

\* (mutant) a Write that follows the NoticeWrite of the same path is dropped
RecvCoalesce(event) ==
  /\ mode = "watch"
  /\ pc = "recv"
  /\ chan = "open"
  /\ nHandled < MaxEvents
  /\ lastEvent' = event
  /\ nHandled' = nHandled + 1
  /\ IF /\ event.kind \in AcceptedKinds
        /\ is_file(fs, scan_path(event)) /\ exists(fs, scan_path(event))
        /\ ~(/\ event.kind = "Write" /\ lastEvent.kind = "NoticeWrite"
             /\ event.path = lastEvent.path)
       THEN execute(scan_path(event))
       ELSE UNCHANGED <<submitted, status, results, logged, invocations>>
  /\ UNCHANGED <<mode, args, fs, visited, pc, num_scanned,
                 num_detected, reported, chan>>

\* one iteration of the loop: rx.recv() returned Ok(event), then the match
Recv(event) ==
  /\ mode = "watch"
  /\ pc = "recv"
  /\ chan = "open"
  /\ nHandled < MaxEvents
  /\ lastEvent' = event
  /\ nHandled' = nHandled + 1
  /\ IF /\ event.kind \in AcceptedKinds
        /\ is_file(fs, scan_path(event)) /\ exists(fs, scan_path(event))
       THEN execute(scan_path(event))
       ELSE UNCHANGED <<submitted, status, results, logged, invocations>>
  /\ UNCHANGED <<mode, args, fs, visited, pc, num_scanned,
                 num_detected, reported, chan>>

\* every Sender of the channel is gone: from now on rx.recv() returns Err
Close ==
  /\ mode = "watch"
  /\ chan = "open"
  /\ chan' = "closed"
  /\ UNCHANGED <<mode, args, fs, visited, pc, submitted, status, results,
                 logged, invocations, num_scanned, num_detected, reported,
                 lastEvent, nHandled>>

\* one iteration of the loop: rx.recv() returned Err(e), which the last arm
\* logs; the loop then calls rx.recv() again
RecvErr ==
  /\ mode = "watch"
  /\ pc = "recv"
  /\ chan = "closed"
  /\ lastEvent' = [kind |-> "RecvError", path |-> None, old |-> None]
  /\ UNCHANGED <<mode, args, fs, visited, pc, submitted, status, results,
                 logged, invocations, num_scanned, num_detected, reported,
                 nHandled, chan>>

\* (mutant) the detected flag decides before the error does
watch_log_detected_first(res) ==
  IF res.detected THEN "warn" ELSE IF res.error THEN "debug" ELSE "none"

\* what the monitor's closure logs for a result: the error at debug level,
\* else the detection at warn level, else nothing
watch_log(res) ==
  IF res.error THEN "debug" ELSE IF res.detected THEN "warn" ELSE "none"

\* the closure of the monitor: engine.scan, then only logging
WatchScan(j, res) ==
  /\ mode = "watch"
  /\ j \in Jobs
  /\ status[j] = "scan"
  /\ results' = [results EXCEPT ![j] = Some(res)]
  /\ invocations' = [invocations EXCEPT ![j] = @ + 1]
  /\ logged' = [logged EXCEPT ![j] = watch_log(res)]
  /\ status' = [status EXCEPT ![j] = "exit"]
  /\ UNCHANGED <<mode, args, fs, visited, pc, submitted, num_scanned,
                 num_detected, reported, lastEvent, nHandled, chan>>

\* ------------------------------------------------------------ specifications
\* fs_scan::start up to the for loop
InitWalk ==
  /\ mode = "walk"
  /\ args \in [workers : PoolSizes, ext : ExtLists]
  /\ fs \in [Paths -> Kinds]
  /\ fs[Root] \in {"dir", "file", "none"}
  /\ fs[Root] # "dir" => Existing(fs) = {}
  /\ Cardinality(Existing(fs)) <= MaxEntries
  /\ visited = {}
  /\ pc = "walk"
  /\ PoolInit
  /\ num_scanned = 0
  /\ num_detected = 0
  /\ reported = None
  /\ lastEvent = NoEvent
  /\ nHandled = 0
  /\ chan = "open"

\* fs_monitor::start up to the loop
InitWatch ==
  /\ mode = "watch"
  /\ args \in [workers : PoolSizes, ext : ExtLists]
  /\ fs \in [Paths -> {"none", "file", "dir"}]
  /\ fs[Root] = "dir"
  /\ Existing(fs) \subseteq WatchNames
  /\ Cardinality(Existing(fs)) <= MaxEntries
  /\ visited = {}
  /\ pc = "recv"
  /\ PoolInit
  /\ num_scanned = 0
  /\ num_detected = 0
  /\ reported = None
  /\ lastEvent = NoEvent
  /\ nHandled = 0
  /\ chan = "open"

\* the steps of the pool threads
Pool ==
  \/ \E j \in Jobs : Take(j)
  \/ \E j \in Jobs : Finish(j)

NextWalk ==
  \/ Pool
  \/ \E p \in Paths : WalkNext(p)
  \/ \E j \in Jobs, res \in ScanResults : WalkScan(j, res)
  \/ \E j \in Jobs : IncDetected(j)
  \/ \E j \in Jobs : IncScanned(j)
  \/ Join
  \/ Report

NextWatch ==
  \/ Pool
  \/ \E p \in WatchNames, k \in Kinds : FsChange(p, k)
  \/ \E event \in Events : Recv(event)
  \/ \E j \in Jobs, res \in ScanResults : WatchScan(j, res)

SpecWalk == InitWalk /\ [][NextWalk]_vars
SpecWatch == InitWatch /\ [][NextWatch]_vars

\* the monitor with a channel that may close
NextWatchClose ==
  \/ NextWatch
  \/ Close
  \/ RecvErr
SpecWatchClose == InitWatch /\ [][NextWatchClose]_vars

Init == InitWalk \/ InitWatch
Next == NextWalk \/ NextWatch
Spec == Init /\ [][Next]_vars

\* the runs in which the path filter plays no part: no allow-list, and a
\* tree of regular files only, so that the pool gets a job per entry
InitPool ==
  /\ Init
  /\ args.ext = <<>>
  /\ \A p \in Names : fs[p] \in {"none", "file"}
SpecPool == InitPool /\ [][Next]_vars

\* the walk of a tree of regular files without allow-list, with threads that
\* are scheduled and detection calls that return: a step that can be taken
\* is taken in the end
InitWalkFair == InitWalk /\ InitPool
SpecWalkFair == InitWalkFair /\ [][NextWalk]_vars /\ WF_vars(NextWalk)

\* ------------------------------------------------------------------ claims
Range(s) == {s[i] : i \in DOMAIN s}
Drained == pc \in {"report", "done"}

\* a job's result is a detection: detected set and error unset
IsDetection(j) ==
  results[j] # None /\ results[j][1].detected /\ ~results[j][1].error

\* C1: in walk mode, once pool.join has returned, num_scanned equals the
\* number of jobs submitted, whatever the results were
ThmC1 == Drained => num_scanned = Len(submitted)

\* a drained walk of three jobs: one clean, one detected, one in error
WitC1 ==
  /\ pc = "done"
  /\ Len(submitted) = 3
  /\ num_scanned = 3
  /\ \E i, j, k \in Jobs :
       /\ results[i] = Some([detected |-> FALSE, error |-> FALSE])
       /\ results[j] = Some([detected |-> TRUE, error |-> FALSE])
       /\ results[k][1].error

\* C2 as stated: num_detected <= num_scanned in every reachable state of a walk
CexC2 == num_detected <= num_scanned

\* the jobs that have incremented num_detected and not yet num_scanned
BetweenIncrements == {j \in Jobs : status[j] = "scanned" /\ IsDetection(j)}

\* C2 as amended: num_detected exceeds num_scanned by at most the number of
\* jobs that stand between their two increments; with no such job, and so
\* once the pool has drained, num_detected <= num_scanned
ThmC2 == num_detected <= num_scanned + Cardinality(BetweenIncrements)

\* a job stands between its increments and num_detected is ahead
WitC2 ==
  /\ BetweenIncrements # {}
  /\ num_detected = num_scanned + 1

\* C3: once the pool has drained, num_detected is the number of jobs whose
\* result had detected set and error unset; every job has a result
ThmC3 ==
  Drained =>
    /\ \A j \in Jobs : results[j] # None
    /\ num_detected = Cardinality({j \in Jobs : IsDetection(j)})

\* drained, with a result that has both error and detected set, not counted
WitC3 ==
  /\ pc = "done"
  /\ num_detected = 1
  /\ \E j \in Jobs : results[j] = Some([detected |-> TRUE, error |-> TRUE])
  /\ \E j \in Jobs : IsDetection(j)

\* C4: when the counters are read for the report, and ever after, every
\* submitted job is done: none queued, none running, no increment pending,
\* and the report shows the final counters
ThmC4 ==
  /\ Drained => \A j \in Jobs : status[j] = "done"
  /\ reported # None =>
       reported[1] = [scanned |-> num_scanned, detected |-> num_detected]

\* the report is about to be written after a walk that submitted jobs
WitC4 == pc = "report" /\ Len(submitted) >= 2 /\ num_scanned >= 2

\* the state of a job in the terms of the per-job state machine
JobState(j) ==
  CASE status[j] = "queued" -> "Submitted"
    [] status[j] \in {"scan", "detected", "scanned", "exit"} -> "Running"
    [] status[j] = "done" /\ results[j] = None -> "Lost"
    [] status[j] = "done" /\ results[j] # None ->
         IF results[j][1].error THEN "Completed-Error"
         ELSE IF results[j][1].detected THEN "Completed-Detected"
         ELSE "Completed-Clean"

Completed == {"Completed-Clean", "Completed-Detected", "Completed-Error"}

\* every job is scanned at most once, and exactly once when completed
OnceEach ==
  \A j \in Jobs :
    /\ JobState(j) \in {"Submitted", "Running"} \cup Completed
    /\ JobState(j) = "Submitted" => invocations[j] = 0
    /\ JobState(j) = "Running" =>
         invocations[j] = (IF status[j] = "scan" THEN 0 ELSE 1)
    /\ JobState(j) \in Completed => invocations[j] = 1
    /\ Drained => JobState(j) \in Completed

\* a job stays submitted with its path, and only moves forward
ForwardOnly ==
  /\ Len(submitted') >= Len(submitted)
  /\ \A j \in Jobs :
       /\ submitted'[j] = submitted[j]
       /\ \/ JobState(j)' = JobState(j)
          \/ JobState(j) = "Submitted" /\ JobState(j)' = "Running"
          \/ JobState(j) = "Running" /\ JobState(j)' \in Completed

\* C5: for every number of jobs and every pool size, engine.scan is called
\* exactly once per submitted job; a job moves Submitted -> Running ->
\* Completed-{Clean, Detected, Error} and never back (no job exists
\* initially, so OnceEach is stated of the state a step leads to, for the
\* steps that change a job or the main thread's position)
ThmC5 ==
  [][\/ UNCHANGED <<submitted, status, results, logged, invocations, pc>>
     \/ ForwardOnly /\ OnceEach']_vars

\* three jobs completed by a pool of one thread, one of them in error
WitC5 ==
  /\ args.workers = 1
  /\ Len(submitted) = 3
  /\ \A j \in Jobs : JobState(j) \in Completed /\ invocations[j] = 1
  /\ \E j \in Jobs : JobState(j) = "Completed-Error"

\* the step is the handling of an event of one of these kinds
Handles(kinds) == nHandled' = nHandled + 1 /\ lastEvent'.kind \in kinds

\* C6: handling a Remove or NoticeRemove event leaves the submitted jobs
\* and the pool as they are
ThmC6 ==
  [][Handles({"Remove", "NoticeRemove"}) =>
       UNCHANGED <<submitted, status, results, logged, invocations>>]_vars

\* a Remove event was handled for a path that is a regular file; no job
WitC6 ==
  /\ nHandled = 1
  /\ lastEvent.kind \in {"Remove", "NoticeRemove"}
  /\ fs[lastEvent.path] = "file"
  /\ submitted = <<>>

\* C7: handling Rename(old, new) submits one job for new when new is a
\* regular file and nothing otherwise, whatever old is
ThmC7 ==
  [][Handles({"Rename"}) =>
       IF fs[lastEvent'.path] = "file"
         THEN /\ submitted' = Append(submitted, lastEvent'.path)
              /\ status' = Append(status, "queued")
         ELSE UNCHANGED <<submitted, status, results, logged, invocations>>]_vars

\* a Rename onto a regular file was handled, the old path being gone: the
\* one job is for the new path
WitC7 ==
  /\ nHandled = 1
  /\ lastEvent.kind = "Rename"
  /\ lastEvent.old # lastEvent.path
  /\ fs[lastEvent.old] = "none"
  /\ submitted = <<lastEvent.path>>

\* the path's extension equals, ignoring case, an entry of the allow-list
HasAllowedExt(ext_list, p) ==
  /\ extension(p) # None
  /\ to_lowercase(extension(p)[1]) \in {to_lowercase(e) : e \in Range(ext_list)}

\* C8 as stated: with the allow-list ["exe", "dll"] the walk submits a job
\* for an entry iff it is a regular file with an allowed extension
CexC8 ==
  (mode = "walk" /\ args.ext = <<exe, dll>>) =>
    \A p \in visited :
      p \in Range(submitted) <=> (fs[p] = "file" /\ HasAllowedExt(args.ext, p))

\* C9 as stated, for the walk: with an empty allow-list a job is submitted
\* for an entry iff it is a regular file
CexC9 ==
  (mode = "walk" /\ args.ext = <<>>) =>
    \A p \in visited : p \in Range(submitted) <=> fs[p] = "file"

\* C10 as stated: with a non-empty allow-list the monitor submits jobs only
\* for paths with an allowed extension
CexC10 ==
  (mode = "watch" /\ args.ext # <<>>) =>
    \A j \in Jobs : HasAllowedExt(args.ext, submitted[j])

\* the jobs submitted for a path
JobsFor(p) == {j \in Jobs : submitted[j] = p}

\* C11: in a walk with an empty allow-list every regular file the walk can
\* reach gets exactly one job, when the loop visits it; an entry whose
\* traversal fails gets none and does not end the loop, which visits every
\* entry after it and is over after finitely many iterations
ThmC11 ==
  (mode = "walk" /\ args.ext = <<>>) =>
    /\ visited \subseteq Reachable
    /\ pc # "walk" => visited = Reachable
    /\ \A p \in Reachable :
         /\ fs[p] = "file" =>
              Cardinality(JobsFor(p)) = IF p \in visited THEN 1 ELSE 0
         /\ fs[p] = "err" => JobsFor(p) = {}

\* the walk is over; it met a failing entry and, after it, a regular file
WitC11 ==
  /\ mode = "walk" /\ args.ext = <<>> /\ pc = "done"
  /\ \E p, q \in Reachable :
       /\ fs[p] = "err" /\ fs[q] = "file" /\ Pos(p) < Pos(q)
       /\ Cardinality(JobsFor(q)) = 1

NonFatalKinds == {"Error", "Rescan"}

\* C12: handling an Error event (with or without a path) or a Rescan event
\* submits no job, leaves the pool as it is and stays in the loop; and an
\* accepted-kind event for an existing regular file handled next after such
\* an event still gets its job
ThmC12 ==
  [][/\ Handles(NonFatalKinds) =>
          /\ UNCHANGED <<submitted, status, results, logged, invocations>>
          /\ pc' = "recv"
     /\ ( /\ lastEvent.kind \in NonFatalKinds
          /\ Handles(AcceptedKinds)
          /\ fs[lastEvent'.path] = "file" ) =>
          /\ submitted' = Append(submitted, lastEvent'.path)
          /\ status' = Append(status, "queued")]_vars

\* an Error event has been handled, no job exists, and the loop is ready to
\* take a Create event for an existing regular file
WitC12 ==
  /\ mode = "watch" /\ pc = "recv"
  /\ lastEvent.kind = "Error" /\ nHandled >= 1
  /\ submitted = <<>>
  /\ fs[bDll] = "file"
  /\ ENABLED Recv([kind |-> "Create", path |-> bDll, old |-> None])

\* C13 as stated: once rx.recv() has returned an error, the loop is left and
\* start has returned
CexC13 ==
  (mode = "watch" /\ lastEvent.kind = "RecvError") => pc \in {"done", "failed"}

\* C14 as stated, for the walk: with a root that does not exist start does
\* not run to its end, where it reports and returns Ok(())
CexC14 ==
  (mode = "walk" /\ fs[Root] = "none") => (pc # "done" /\ reported = None)

\* the closure of job j has run to its end
ClosureOver(j) == status[j] \in {"exit", "done"}

\* what the closures have logged agrees with their results
LogsAgree ==
  \A j \in Jobs :
    /\ logged[j] = "warn" => IsDetection(j)
    /\ (results[j] # None /\ results[j][1].error) => logged[j] = "debug"
    /\ ClosureOver(j) => (logged[j] = "warn" <=> IsDetection(j))

\* the step in which job j gets an error result
ErrorResult(j) ==
  /\ j \in Jobs
  /\ results[j] = None
  /\ results'[j] # None
  /\ results'[j][1].error

\* C15: in both modes a job logs the malware warning iff its result has the
\* error unset and detected set; a result with the error set is logged at
\* debug level and never as a warning, whatever detected says; and the step
\* that yields an error result leaves the submitting loop where it is and
\* every other job as it was
ThmC15 ==
  [][/\ LogsAgree'
     /\ \A j \in Jobs :
          ErrorResult(j) =>
            /\ pc' = pc
            /\ submitted' = submitted
            /\ \A k \in Jobs \ {j} :
                 /\ status'[k] = status[k]
                 /\ results'[k] = results[k]
                 /\ logged'[k] = logged[k]]_vars

\* a job whose result has both the error and detected set has ended with a
\* debug line only, and a later job has ended with the warning
WitC15 ==
  \E j, k \in Jobs :
    /\ j < k
    /\ results[j] = Some([detected |-> TRUE, error |-> TRUE])
    /\ logged[j] = "debug" /\ status[j] = "done"
    /\ IsDetection(k) /\ logged[k] = "warn" /\ status[k] = "done"

\* C16: the number of jobs running at once never exceeds the configured
\* number of workers
ThmC16 == Cardinality(Active) <= args.workers

\* every worker is busy and a job waits in the queue
WitC16 ==
  /\ Cardinality(Active) = args.workers
  /\ args.workers = MaxWorkers
  /\ Queued # {}

\* the submitter stands before a submission: the walk has an entry left,
\* the monitor can receive an event
WalkCanSubmit == mode = "walk" /\ pc = "walk" /\ Reachable \ visited # {}
WatchCanRecv ==
  mode = "watch" /\ pc = "recv" /\ chan = "open" /\ nHandled < MaxEvents

\* C17: a submission is never held up by the pool: whatever the workers do
\* and however many jobs are queued, the walk's next iteration and the
\* monitor's handling of any event can be taken
ThmC17 ==
  /\ WalkCanSubmit => \E p \in Reachable \ visited : ENABLED WalkNext(p)
  /\ WatchCanRecv => \A event \in Events : ENABLED Recv(event)

\* every worker holds a job, a job is queued, and the walk can still submit
\* the next entry, a regular file
WitC17 ==
  /\ WalkCanSubmit
  /\ Cardinality(Active) = args.workers
  /\ Queued # {}
  /\ \E p \in Reachable \ visited : fs[p] = "file" /\ ENABLED WalkNext(p)

\* the job a free thread would receive next
Oldest(j) == j \in Queued /\ \A k \in Queued : j <= k

\* C18: the monitor does not deduplicate by path: the oldest queued job is
\* handed to a free thread whatever the paths of the jobs that are running,
\* and every running job can take its next step, to its completion,
\* whatever else is running; so two jobs for one path run side by side
ThmC18 ==
  mode = "watch" =>
    \A j \in Jobs :
      /\ (Oldest(j) /\ Cardinality(Active) < args.workers) => ENABLED Take(j)
      /\ status[j] = "scan" =>
           \A res \in ScanResults : ENABLED WatchScan(j, res)
      /\ status[j] = "exit" => ENABLED Finish(j)

\* two jobs for the same path are running at the same time
WitC18 ==
  /\ mode = "watch" /\ args.workers >= 2
  /\ \E j, k \in Active :
       j # k /\ submitted[j] = submitted[k] /\ status[j] = "scan"

\* the event being handled is of an accepted kind and its path is, now, a
\* regular file
Qualifies == lastEvent'.kind \in AcceptedKinds /\ fs[lastEvent'.path] = "file"

\* C20: the monitor submits one job per handled event of an accepted kind
\* whose path is an existing regular file when handled, and none otherwise:
\* each such event appends a job for its path, whatever was handled or
\* submitted before, and no other step changes the jobs submitted; so
\* NoticeWrite(p) followed by Write(p) gives two jobs for p
ThmC20 ==
  [][mode = "watch" =>
       IF nHandled' = nHandled + 1 /\ Qualifies
         THEN submitted' = Append(submitted, lastEvent'.path)
         ELSE submitted' = submitted]_vars

\* two events for b.Dll have been handled, the second a Write, and there are
\* two jobs for b.Dll
WitC20 ==
  /\ mode = "watch" /\ nHandled = 2
  /\ lastEvent = [kind |-> "Write", path |-> bDll, old |-> None]
  /\ submitted = <<bDll, bDll>>

\* every job has its result and has left its thread
AllDone == \A j \in Jobs : results[j] # None /\ status[j] = "done"

\* C19: with detection calls that return and fair scheduling the walk
\* drains the pool, logs the report and returns Ok(()); the report is
\* written once and never changed; and it is not written while a job lacks
\* its result, so a detection call that never returns keeps it from being
\* written
ThmC19 ==
  /\ <>(pc = "done" /\ reported # None)
  /\ [](pc \in {"report", "done"} => AllDone)
  /\ [][reported # None => reported' = reported]_vars

\* start has returned after a report that counts two jobs or more
WitC19 ==
  /\ mode = "walk" /\ pc = "done"
  /\ Len(submitted) >= 2
  /\ reported = Some([scanned |-> Len(submitted), detected |-> num_detected])

====
